---- MODULE Spec2Model ----
(***************************************************************************)
(* RecentUsernamesService: a per-user, bounded, deduplicated, most-recent- *)
(* first list of usernames kept in a per-user state slot, with seeding     *)
(* from identity ciphers and from the account email.                       *)
(*                                                                         *)
(* A string is a sequence of character codes; SP is a whitespace           *)
(* character.  A stored value is a record: present = FALSE is the slot     *)
(* that was never written (null), present = TRUE carries the array.        *)
(***************************************************************************)
EXTENDS Integers, Sequences, FiniteSets, TLC

MAX_USERNAMES == 20

\* Bounds of the model.
MaxCalls == 3
MaxFaults == 1
MaxSerialCalls == 3
NumNames == 23

SP == 0

Users == {"u1", "u2"}
Procs == {1, 2}

VARIABLES
    store,      \* the state slot of RECENT_USERNAMES_KEY of each user
    ciphers,    \* what cipherService.getAllDecrypted yields for each user
    accounts,   \* accountService.accounts$
    proc,       \* the calls in flight, one per slot
    ncalls,     \* calls started so far
    nfaults,    \* collaborator failures so far
    history,    \* the trimmed usernames of the committed addUsername updates
    active,     \* accountService.activeAccount$: the active user, or NoUser
    view,       \* a subscription to recentUsernames$()
    form        \* the username field of LoginDetailsSectionComponent

vars == <<store, ciphers, accounts, proc, ncalls, nfaults, history, active, view, form>>

----------------------------------------------------------------------------
(* Pure helpers *)

Min(a, b) == IF a < b THEN a ELSE b

RECURSIVE trimStart(_)
trimStart(s) == IF s # <<>> /\ Head(s) = SP THEN trimStart(Tail(s)) ELSE s

RECURSIVE trimEnd(_)
trimEnd(s) ==
    IF s # <<>> /\ s[Len(s)] = SP THEN trimEnd(SubSeq(s, 1, Len(s) - 1)) ELSE s

\* String.prototype.trim
trim(s) == trimEnd(trimStart(s))

\* Array.prototype.slice(0, n)
slice(list, n) == SubSeq(list, 1, Min(n, Len(list)))

\* filter as if no entry were removed
filterNothing(list, trimmed) == list

\* currentUsernames.filter((u) => u !== trimmed)
filter(list, trimmed) == SelectSeq(list, LAMBDA u : u # trimmed)

\* trimmedOf as if the username were stored as typed
trimmedOfUntrimmed(username) == username

\* const trimmed = username.trim()
trimmedOf(username) == trim(username)

\* isBlank as if only the empty string were rejected
isBlankOnlyEmpty(username) == username = <<>>

\* The guard of addUsername: !username || username.trim() === ""
isBlank(username) == username = <<>> \/ trim(username) = <<>>

Absent == [present |-> FALSE, list |-> <<>>]
Present(list) == [present |-> TRUE, list |-> list]

\* current ?? []
orEmpty(value) == IF value.present THEN value.list ELSE <<>>

\* addUpdater as if the username were put last instead of first
addUpdaterAppends(current, trimmed) ==
    slice(filter(orEmpty(current), trimmed) \o <<trimmed>>, MAX_USERNAMES)

\* addUpdater as if the value in the store were not looked at
addUpdaterBlind(current, trimmed) == <<trimmed>>

\* addUpdater as if the result were not cut to MAX_USERNAMES
addUpdaterUncapped(current, trimmed) ==
    <<trimmed>> \o filter(orEmpty(current), trimmed)

\* The updater that addUsername hands to state.update
addUpdater(current, trimmed) ==
    LET currentUsernames == orEmpty(current)
        filtered == filter(currentUsernames, trimmed)
    IN  slice(<<trimmed>> \o filtered, MAX_USERNAMES)

\* Array.prototype.indexOf (0-based, -1 when not found)
indexOf(list, x) ==
    IF \E i \in 1..Len(list) : list[i] = x
    THEN (CHOOSE i \in 1..Len(list) :
            list[i] = x /\ \A j \in 1..(i - 1) : list[j] # x) - 1
    ELSE -1

\* usernames.splice(existing, 1)
splice(list, existing) ==
    SubSeq(list, 1, existing) \o SubSeq(list, existing + 2, Len(list))

\* usernames.unshift(email)
unshift(list, x) == <<x>> \o list

\* usernames.pop()
pop(list) == SubSeq(list, 1, Len(list) - 1)

\* seedStep as if an email already collected were not removed
seedStepKeepsExisting(usernames, email) ==
    LET pushed == unshift(usernames, email)
    IN  IF Len(pushed) > MAX_USERNAMES THEN pop(pushed) ELSE pushed

\* One pass of the loop body of seedFromIdentityCiphers
seedStep(usernames, email) ==
    LET existing == indexOf(usernames, email)
        removed == IF existing # -1 THEN splice(usernames, existing) ELSE usernames
        pushed == unshift(removed, email)
    IN  IF Len(pushed) > MAX_USERNAMES THEN pop(pushed) ELSE pushed

\* The for loop of seedFromIdentityCiphers over identityEmails[i..]; a pass
\* leaves at least the email it put first
RECURSIVE seedLoop(_, _, _)
seedLoop(identityEmails, i, usernames) ==
    IF i > Len(identityEmails)
    THEN usernames
    ELSE LET next == seedStep(usernames, identityEmails[i])
         IN  IF Len(next) > 0 THEN seedLoop(identityEmails, i + 1, next) ELSE next

\* A cipher: identity = FALSE is a cipher without an identity (or without an
\* email); otherwise email is the identity's email.
Cipher(email) == [identity |-> TRUE, email |-> email]
NoIdentity == [identity |-> FALSE, email |-> <<>>]

\* identityEmailsOf without the filter
identityEmailsOfUnfiltered(cs) ==
    [i \in 1..Len(cs) |-> IF cs[i].identity THEN trim(cs[i].email) ELSE <<>>]

\* ciphers.map((cipher) => cipher.identity?.email?.trim()).filter(Boolean)
identityEmailsOf(cs) ==
    LET mapped == [i \in 1..Len(cs) |->
                     IF cs[i].identity THEN trim(cs[i].email) ELSE <<>>]
    IN  SelectSeq(mapped, LAMBDA email : email # <<>>)

\* accountEmail as if the email were not trimmed
accountEmailUntrimmed(account) == IF account.identity THEN account.email ELSE <<>>

\* accounts?.[userId]?.email?.trim(); an account is a cipher-like record
accountEmail(account) == IF account.identity THEN trim(account.email) ELSE <<>>

----------------------------------------------------------------------------
(* The collaborators' data: the identity source and the account directory *)

Name(k) == <<k>>

\* The two ciphers of the service's seeding test, the second with padding
twoCiphers == <<Cipher(Name(5)), Cipher(<<SP, 6, SP>>)>>

\* Ciphers that carry no usable email
blankCiphers == <<NoIdentity, Cipher(<<SP>>), Cipher(<<>>)>>

\* A repeated email among others
dupCiphers == <<Cipher(Name(5)), NoIdentity, Cipher(Name(6)), Cipher(<<5, SP>>)>>

\* More distinct emails than MAX_USERNAMES, then one of them again
longCiphers == [i \in 1..NumNames |-> Cipher(Name(i))] \o <<Cipher(<<SP, 10>>)>>

noAccount == NoIdentity
blankAccount == Cipher(<<SP>>)
Account(k) == Cipher(<<SP, k, SP>>)

Envs ==
    { [ciphers |-> [u \in Users |-> IF u = "u1" THEN twoCiphers ELSE <<>>],
       accounts |-> [u \in Users |-> IF u = "u1" THEN Account(30) ELSE Account(31)]],
      [ciphers |-> [u \in Users |-> IF u = "u1" THEN longCiphers ELSE dupCiphers],
       accounts |-> [u \in Users |-> IF u = "u1" THEN noAccount ELSE blankAccount]],
      [ciphers |-> [u \in Users |-> IF u = "u1" THEN blankCiphers ELSE twoCiphers],
       accounts |-> [u \in Users |-> IF u = "u1" THEN Account(30) ELSE noAccount]],
      [ciphers |-> [u \in Users |-> IF u = "u1" THEN <<>> ELSE longCiphers],
       accounts |-> [u \in Users |-> IF u = "u1" THEN blankAccount ELSE Account(5)]] }

\* Arguments of the calls
RawInputs == {<<SP>>, <<SP, 5>>, Name(6), <<40, SP>>}
Limits == {0, 3}

----------------------------------------------------------------------------
(* One call in flight per slot of proc *)

Idle ==
    [pc |-> "idle", op |-> "none", userId |-> "u1", username |-> <<>>,
     limit |-> 0, trimmed |-> <<>>, usernames |-> Absent, seeded |-> <<>>,
     identityEmail |-> <<>>, result |-> <<>>, current |-> Absent,
     written |-> <<>>, writes |-> 0, failed |-> FALSE,
     updates |-> 0, faults |-> {}, rejected |-> FALSE, gen |-> 0]

\* No active account
NoUser == "none"

\* recentUsernames$() before anyone subscribes
Unsubscribed ==
    [status |-> "off", gen |-> 0, emitted |-> <<>>, emittedFor |-> NoUser, count |-> 0]

\* The username field as the component creates it, for the user the
\* component took from activeAccount$; waiting[p] names the handler that
\* awaits the call in slot p, input[p] what that handler read from the field
Closed(currentUserId) ==
    [showAutocompleteSuggestions |-> FALSE, filteredSuggestions |-> <<>>,
     username |-> <<>>, currentUserId |-> currentUserId,
     focused |-> FALSE, blurred |-> FALSE,
     waiting |-> [p \in Procs |-> "none"], input |-> [p \in Procs |-> <<>>]]

\* getUser handing every user the same slot
getUserShared(userId) == "u1"

\* this.stateProvider.getUser(userId, RECENT_USERNAMES_KEY): the slot of the user
getUser(userId) == userId

\* this.cipherService.getAllDecrypted(userId)
getAllDecrypted(userId) == ciphers[userId]

\* hasUsernames taking every list for an empty one
hasUsernamesNever(usernames) == FALSE

\* The test of getUsernamesOrSeedFromIdentity on what it read: usernames?.length
hasUsernames(usernames) == usernames.present /\ Len(usernames.list) # 0

\* afterSeed going on to the account email whatever was seeded
afterSeedAlwaysFallsBack(seededFromIdentity) == "accounts_read"

\* The test on what seedFromIdentityCiphers returned: seededFromIdentity.length
afterSeed(seededFromIdentity) ==
    IF Len(seededFromIdentity) # 0 THEN "seed_reread" ELSE "accounts_read"

\* clearUpdater leaving the list as it is
clearUpdaterKeeps(current) == current.list

\* rejectedUpdate that had emptied the list before it threw
rejectedUpdateHalfDone(current) == Present(<<>>)

\* What is stored after a state.update that throws: what was stored before
rejectedUpdate(current) == current

\* The updater that clear hands to state.update: () => []
clearUpdater(current) == <<>>

Init ==
    /\ store = [u \in Users |-> Absent]
    /\ \E e \in Envs : ciphers = e.ciphers /\ accounts = e.accounts
    /\ proc = [p \in Procs |-> Idle]
    /\ ncalls = 0
    /\ nfaults = 0
    /\ history = <<>>
    /\ active = NoUser
    /\ view = Unsubscribed
    /\ form = Closed(NoUser)

\* A collaborator call may fail while faults remain
Outcomes == IF nfaults < MaxFaults THEN BOOLEAN ELSE {TRUE}

Fault(ok) == nfaults' = IF ok THEN nfaults ELSE nfaults + 1

\* addUsername up to the call of state.update
AddCall(p, userId, username) ==
    /\ proc[p].pc = "idle"
    /\ proc' = [proc EXCEPT ![p] =
            IF isBlank(username)
            THEN [Idle EXCEPT !.pc = "done", !.op = "add", !.userId = userId,
                              !.username = username]
            ELSE [Idle EXCEPT !.pc = "add_update", !.op = "add", !.userId = userId,
                              !.username = username, !.trimmed = trimmedOf(username)]]
    /\ ncalls' = ncalls + 1
    /\ UNCHANGED <<store, ciphers, accounts, nfaults>>

\* state.update of addUsername: one atomic read-modify-write; a failure is swallowed
AddUpdate(p, ok) ==
    /\ proc[p].pc = "add_update"
    /\ LET userId == getUser(proc[p].userId)
           next == addUpdater(store[userId], proc[p].trimmed)
       IN  IF ok
           THEN /\ store' = [store EXCEPT ![userId] = Present(next)]
                /\ proc' = [proc EXCEPT ![p].pc = "done",
                                        ![p].current = store[userId],
                                        ![p].written = next,
                                        ![p].writes = @ + 1,
                                        ![p].updates = @ + 1]
           ELSE /\ store' = [store EXCEPT ![userId] = rejectedUpdate(store[userId])]
                /\ proc' = [proc EXCEPT ![p].pc = "done", ![p].failed = TRUE,
                                        ![p].updates = @ + 1,
                                        ![p].faults = @ \cup {"add_update"}]
    /\ Fault(ok)
    /\ UNCHANGED <<ciphers, accounts, ncalls>>

\* clear up to the call of state.update
ClearCall(p, userId) ==
    /\ proc[p].pc = "idle"
    /\ proc' = [proc EXCEPT ![p] =
            [Idle EXCEPT !.pc = "clear_update", !.op = "clear", !.userId = userId]]
    /\ ncalls' = ncalls + 1
    /\ UNCHANGED <<store, ciphers, accounts, nfaults>>

\* state.update(() => []) of clear; a failure is swallowed
ClearUpdate(p, ok) ==
    /\ proc[p].pc = "clear_update"
    /\ LET userId == getUser(proc[p].userId)
           next == clearUpdater(store[userId])
       IN  IF ok
           THEN /\ store' = [store EXCEPT ![userId] = Present(next)]
                /\ proc' = [proc EXCEPT ![p].pc = "done",
                                        ![p].current = store[userId],
                                        ![p].written = next,
                                        ![p].writes = @ + 1,
                                        ![p].updates = @ + 1]
           ELSE /\ store' = [store EXCEPT ![userId] = rejectedUpdate(store[userId])]
                /\ proc' = [proc EXCEPT ![p].pc = "done", ![p].failed = TRUE,
                                        ![p].updates = @ + 1,
                                        ![p].faults = @ \cup {"clear_update"}]
    /\ Fault(ok)
    /\ UNCHANGED <<ciphers, accounts, ncalls>>

\* getRecent up to its first await
GetCall(p, userId, limit) ==
    /\ proc[p].pc = "idle"
    /\ proc' = [proc EXCEPT ![p] =
            [Idle EXCEPT !.pc = "get_read", !.op = "get", !.userId = userId,
                         !.limit = limit]]
    /\ ncalls' = ncalls + 1
    /\ UNCHANGED <<store, ciphers, accounts, nfaults>>

\* Returned without the slice
ReturnedUnsliced(p, list) ==
    [proc EXCEPT ![p].pc = "done", ![p].result = list]

\* getUsernamesOrSeedFromIdentity returns list: getRecent returns
\* (usernames ?? []).slice(0, limit), recentUsernames$ gets the list as it is
Returned(p, list) ==
    [proc EXCEPT ![p].pc = "done",
                 ![p].result = IF proc[p].op = "get"
                               THEN slice(list, proc[p].limit)
                               ELSE list]

\* Thrown as if getRecent had no catch
ThrownUncaught(p, step) ==
    [proc EXCEPT ![p].pc = "done", ![p].failed = TRUE, ![p].rejected = TRUE,
                 ![p].faults = @ \cup {step}]

\* getUsernamesOrSeedFromIdentity throws at step: the catch of getRecent
\* returns []; the promise that recentUsernames$ waits for is rejected
Thrown(p, step) ==
    [proc EXCEPT ![p].pc = "done", ![p].result = <<>>, ![p].failed = TRUE,
                 ![p].rejected = (proc[p].op # "get"),
                 ![p].faults = @ \cup {step}]

\* getUsernamesOrSeedFromIdentity: the first read of state$ and the test on it
GetRead(p, ok) ==
    /\ proc[p].pc = "get_read"
    /\ LET usernames == store[getUser(proc[p].userId)]
       IN  proc' =
             IF ~ok THEN Thrown(p, "get_read")
             ELSE IF hasUsernames(usernames)
             THEN [Returned(p, usernames.list) EXCEPT ![p].usernames = usernames]
             ELSE [proc EXCEPT ![p].pc = "seed_query", ![p].usernames = usernames]
    /\ Fault(ok)
    /\ UNCHANGED <<store, ciphers, accounts, ncalls>>

\* seedFromIdentityCiphers: getAllDecrypted and the fold in memory
SeedQuery(p, ok) ==
    /\ proc[p].pc = "seed_query"
    /\ LET identityEmails == identityEmailsOf(getAllDecrypted(proc[p].userId))
       IN  proc' =
             IF ~ok THEN [proc EXCEPT ![p].pc = afterSeed(<<>>), ![p].failed = TRUE,
                                      ![p].faults = @ \cup {"seed_query"}]
             ELSE IF Len(identityEmails) = 0
             THEN [proc EXCEPT ![p].pc = afterSeed(<<>>)]
             ELSE [proc EXCEPT ![p].pc = "seed_update",
                               ![p].seeded = seedLoop(identityEmails, 1, <<>>)]
    /\ Fault(ok)
    /\ UNCHANGED <<store, ciphers, accounts, ncalls>>

\* seedFromIdentityCiphers: state.update(() => usernames); its catch returns []
SeedUpdate(p, ok) ==
    /\ proc[p].pc = "seed_update"
    /\ LET userId == getUser(proc[p].userId)
       IN  IF ok
           THEN /\ store' = [store EXCEPT ![userId] = Present(proc[p].seeded)]
                /\ proc' = [proc EXCEPT ![p].pc = afterSeed(proc[p].seeded),
                                        ![p].current = store[userId],
                                        ![p].written = proc[p].seeded,
                                        ![p].writes = @ + 1,
                                        ![p].updates = @ + 1]
           ELSE /\ store' = store
                /\ proc' = [proc EXCEPT ![p].pc = afterSeed(<<>>),
                                        ![p].seeded = <<>>,
                                        ![p].failed = TRUE,
                                        ![p].updates = @ + 1,
                                        ![p].faults = @ \cup {"seed_update"}]
    /\ Fault(ok)
    /\ UNCHANGED <<ciphers, accounts, ncalls>>

\* getUsernamesOrSeedFromIdentity: the second read, updated ?? seededFromIdentity
SeedReread(p, ok) ==
    /\ proc[p].pc = "seed_reread"
    /\ LET updated == store[getUser(proc[p].userId)]
       IN  proc' =
             IF ~ok THEN Thrown(p, "seed_reread")
             ELSE Returned(p, IF updated.present THEN updated.list ELSE proc[p].seeded)
    /\ Fault(ok)
    /\ UNCHANGED <<store, ciphers, accounts, ncalls>>

\* getUsernamesOrSeedFromIdentity: the read of accounts$ and the test on the email
AccountsRead(p, ok) ==
    /\ proc[p].pc = "accounts_read"
    /\ LET identityEmail == accountEmail(accounts[proc[p].userId])
       IN  proc' =
             IF ~ok THEN Thrown(p, "accounts_read")
             ELSE IF identityEmail = <<>>
             THEN Returned(p, <<>>)
             ELSE [proc EXCEPT ![p].pc = "fallback_add",
                               ![p].identityEmail = identityEmail]
    /\ Fault(ok)
    /\ UNCHANGED <<store, ciphers, accounts, ncalls>>

\* await this.addUsername(userId, identityEmail); return [identityEmail]
FallbackAdd(p, ok) ==
    /\ proc[p].pc = "fallback_add"
    /\ LET userId == getUser(proc[p].userId)
           identityEmail == proc[p].identityEmail
           next == addUpdater(store[userId], trimmedOf(identityEmail))
           wrote == ok /\ ~isBlank(identityEmail)
           after == Returned(p, <<identityEmail>>)
       IN  /\ store' = IF wrote THEN [store EXCEPT ![userId] = Present(next)] ELSE store
           /\ proc' = IF wrote
                      THEN [after EXCEPT ![p].current = store[userId],
                                         ![p].written = next,
                                         ![p].writes = @ + 1,
                                         ![p].updates = @ + 1]
                      ELSE [after EXCEPT ![p].failed = TRUE,
                                         ![p].updates = @ + 1,
                                         ![p].faults = @ \cup {"fallback_add"}]
    /\ Fault(ok)
    /\ UNCHANGED <<ciphers, accounts, ncalls>>

\* The caller takes the result; the slot is free again
Return(p) ==
    /\ proc[p].pc = "done"
    /\ proc' = [proc EXCEPT ![p] = Idle]
    /\ UNCHANGED <<store, ciphers, accounts, ncalls, nfaults>>

\* A new call takes the lowest free slot while calls remain
Free(p) == ncalls < MaxCalls /\ \A q \in Procs : q < p => proc[q].pc # "idle"

\* Any interleaving of calls on two slots
Next ==
    /\ \/ \E p \in Procs, u \in Users, username \in RawInputs :
             Free(p) /\ AddCall(p, u, username)
       \/ \E p \in Procs, u \in Users, limit \in Limits :
             Free(p) /\ GetCall(p, u, limit)
       \/ \E p \in Procs, u \in Users : Free(p) /\ ClearCall(p, u)
       \/ \E p \in Procs, ok \in Outcomes : AddUpdate(p, ok)
       \/ \E p \in Procs, ok \in Outcomes : ClearUpdate(p, ok)
       \/ \E p \in Procs, ok \in Outcomes : GetRead(p, ok)
       \/ \E p \in Procs, ok \in Outcomes : SeedQuery(p, ok)
       \/ \E p \in Procs, ok \in Outcomes : SeedUpdate(p, ok)
       \/ \E p \in Procs, ok \in Outcomes : SeedReread(p, ok)
       \/ \E p \in Procs, ok \in Outcomes : AccountsRead(p, ok)
       \/ \E p \in Procs, ok \in Outcomes : FallbackAdd(p, ok)
       \/ \E p \in Procs : Return(p)
    /\ UNCHANGED <<history, active, view, form>>

Spec == Init /\ [][Next]_vars

\* One call at a time: every call runs to its end before the next starts
SerialInputs == RawInputs \cup {<<>>, <<SP, SP>>, <<5, SP, 6>>}
SerialLimits == Limits \cup {20}

NextSerial ==
    /\ \/ \E u \in Users, username \in SerialInputs :
             ncalls < MaxSerialCalls /\ AddCall(1, u, username)
       \/ \E u \in Users, limit \in SerialLimits :
             ncalls < MaxSerialCalls /\ GetCall(1, u, limit)
       \/ \E u \in Users : ncalls < MaxSerialCalls /\ ClearCall(1, u)
       \/ \E ok \in Outcomes : AddUpdate(1, ok)
       \/ \E ok \in Outcomes : ClearUpdate(1, ok)
       \/ \E ok \in Outcomes : GetRead(1, ok)
       \/ \E ok \in Outcomes : SeedQuery(1, ok)
       \/ \E ok \in Outcomes : SeedUpdate(1, ok)
       \/ \E ok \in Outcomes : SeedReread(1, ok)
       \/ \E ok \in Outcomes : AccountsRead(1, ok)
       \/ \E ok \in Outcomes : FallbackAdd(1, ok)
       \/ Return(1)
    /\ UNCHANGED <<history, active, view, form>>

SpecSerial == Init /\ [][NextSerial]_vars

\* Successful addUsername calls for u1, one after the other, with usernames
\* that differ pairwise: the first two are free, the following ones keep the
\* distance of the first two (modulo NumNames)
SeqInputs == {Name(k) : k \in 1..NumNames} \cup {<<SP, k, SP>> : k \in 1..NumNames}

SeqFollows(username) ==
    LET n == Len(history)
        k == trim(username)[1]
    IN  /\ \A i \in 1..n : history[i] # trim(username)
        /\ n >= 2 =>
              (k - history[n][1]) % NumNames = (history[2][1] - history[1][1]) % NumNames

InitSeq ==
    /\ store \in {[u \in Users |-> Absent],
                  [u \in Users |-> IF u = "u1" THEN Present(<<>>) ELSE Absent]}
    /\ ciphers = [u \in Users |-> twoCiphers]
    /\ accounts = [u \in Users |-> Account(30)]
    /\ proc = [p \in Procs |-> Idle]
    /\ ncalls = 0
    /\ nfaults = 0
    /\ history = <<>>
    /\ active = NoUser
    /\ view = Unsubscribed
    /\ form = Closed(NoUser)

NextSeq ==
    /\ \/ \E username \in SeqInputs :
             SeqFollows(username) /\ AddCall(1, "u1", username) /\ UNCHANGED history
       \/ AddUpdate(1, TRUE) /\ history' = Append(history, proc[1].trimmed)
       \/ Return(1) /\ UNCHANGED history
    /\ UNCHANGED <<active, view, form>>

SpecSeq == InitSeq /\ [][NextSeq]_vars

\* Two addUsername calls for u1 in flight together (both are started before
\* either update is applied), with different usernames, on a list that earlier
\* calls left
Descending(n) == [i \in 1..n |-> Name(n + 1 - i)]

RacePriors ==
    {Absent, Present(<<>>)} \cup {Present(Descending(n)) : n \in {1, 19, MAX_USERNAMES}}

RaceInputs == {Name(1), <<SP, 2>>, Name(19), <<20, SP>>, <<SP, 40, SP>>, Name(41)}

InitRace ==
    /\ \E prior \in RacePriors :
          store = [u \in Users |-> IF u = "u1" THEN prior ELSE Absent]
    /\ ciphers = [u \in Users |-> twoCiphers]
    /\ accounts = [u \in Users |-> Account(30)]
    /\ proc = [p \in Procs |-> Idle]
    /\ ncalls = 0
    /\ nfaults = 0
    /\ history = <<>>
    /\ active = NoUser
    /\ view = Unsubscribed
    /\ form = Closed(NoUser)

NextRace ==
    /\ \/ \E p \in Procs, username \in RaceInputs :
             /\ \A q \in Procs : proc[q].op = "add" => proc[q].trimmed # trim(username)
             /\ AddCall(p, "u1", username)
       \/ \E p \in Procs :
             (\A q \in Procs : proc[q].pc # "idle") /\ AddUpdate(p, TRUE)
    /\ UNCHANGED <<history, active, view, form>>

SpecRace == InitRace /\ [][NextRace]_vars

\* getRecent calls, one at a time, for users whose seed sources yield
\* nothing at first; between two calls the vault or the account directory may
\* change. history logs the finished calls and the changes.
MaxChanges == 1
MaxReseedCalls == 2

DryCiphers == {<<>>, blankCiphers}
DryAccounts == {noAccount, blankAccount}
LaterCiphers == {twoCiphers, dupCiphers, blankCiphers}
LaterAccounts == {Account(30), blankAccount}

Changes == Cardinality({i \in 1..Len(history) : history[i].kind = "source"})

InitReseed ==
    /\ store = [u \in Users |-> Absent]
    /\ ciphers \in [Users -> DryCiphers]
    /\ accounts \in [Users -> DryAccounts]
    /\ proc = [p \in Procs |-> Idle]
    /\ ncalls = 0
    /\ nfaults = 0
    /\ history = <<>>
    /\ active = NoUser
    /\ view = Unsubscribed
    /\ form = Closed(NoUser)

\* The vault of userId gets other ciphers while no call is in flight
CiphersChange(userId, cs) ==
    /\ proc[1].pc = "idle"
    /\ Changes < MaxChanges
    /\ cs # ciphers[userId]
    /\ ciphers' = [ciphers EXCEPT ![userId] = cs]
    /\ history' = Append(history, [kind |-> "source", userId |-> userId, writes |-> 0,
                                   failed |-> FALSE, usernames |-> Absent])
    /\ UNCHANGED <<store, accounts, proc, ncalls, nfaults>>

\* The account of userId gets another email while no call is in flight
AccountsChange(userId, account) ==
    /\ proc[1].pc = "idle"
    /\ Changes < MaxChanges
    /\ account # accounts[userId]
    /\ accounts' = [accounts EXCEPT ![userId] = account]
    /\ history' = Append(history, [kind |-> "source", userId |-> userId, writes |-> 0,
                                   failed |-> FALSE, usernames |-> Absent])
    /\ UNCHANGED <<store, ciphers, proc, ncalls, nfaults>>

\* The promise of the getRecent in slot 1 settles
ReturnLogged ==
    /\ Return(1)
    /\ history' = Append(history, [kind |-> "get", userId |-> proc[1].userId,
                                   writes |-> proc[1].writes,
                                   failed |-> proc[1].failed,
                                   usernames |-> proc[1].usernames])

NextReseed ==
    /\ \/ \E u \in Users, limit \in Limits :
             ncalls < MaxReseedCalls /\ GetCall(1, u, limit) /\ UNCHANGED history
       \/ \E ok \in Outcomes : GetRead(1, ok) /\ UNCHANGED history
       \/ \E ok \in Outcomes : SeedQuery(1, ok) /\ UNCHANGED history
       \/ \E ok \in Outcomes : SeedUpdate(1, ok) /\ UNCHANGED history
       \/ \E ok \in Outcomes : SeedReread(1, ok) /\ UNCHANGED history
       \/ \E ok \in Outcomes : AccountsRead(1, ok) /\ UNCHANGED history
       \/ \E ok \in Outcomes : FallbackAdd(1, ok) /\ UNCHANGED history
       \/ ReturnLogged
       \/ \E u \in Users, cs \in LaterCiphers : CiphersChange(u, cs)
       \/ \E u \in Users, account \in LaterAccounts : AccountsChange(u, account)
    /\ UNCHANGED <<active, view, form>>

SpecReseed == InitReseed /\ [][NextReseed]_vars

\* A subscriber of recentUsernames$() while the active account changes.
\* Evaluations of the view overlap one another; addUsername, getRecent and
\* clear run between them. history logs the active accounts.
MaxSwitches == 2
MaxViewCalls == 2
MaxViewFaults == 2

ViewInputs == {Name(6)}
ViewLimits == {3}
ViewOutcomes == IF nfaults < MaxViewFaults THEN BOOLEAN ELSE {TRUE}

\* The lowest slot with no call in flight
FreeSlot == CHOOSE p \in Procs : Free(p) /\ proc[p].pc = "idle"

\* No call is in flight but evaluations of the view
OnlyViews == \A p \in Procs : proc[p].op \in {"none", "view"}

\* No call is in flight
Quiet == \A p \in Procs : proc[p].pc = "idle"

\* from(this.getUsernamesOrSeedFromIdentity(account.id)): the call runs up to
\* its first await; gen tells which inner subscription waits for it
StartView(userId, gen) ==
    /\ ncalls < MaxViewCalls
    /\ OnlyViews
    /\ \E p \in Procs : proc[p].pc = "idle"
    /\ proc' = [proc EXCEPT ![FreeSlot] =
            [Idle EXCEPT !.pc = "get_read", !.op = "view", !.userId = userId,
                         !.gen = gen]]
    /\ ncalls' = ncalls + 1

\* The subscriber gets list, evaluated for account
Emit(list, account, gen) ==
    [view EXCEPT !.status = "live", !.gen = gen, !.emitted = list,
                 !.emittedFor = account, !.count = @ + 1]

\* switchMap on a value of activeAccount$: the inner subscription before it
\* is dropped; no account gives of([]), an account starts the call
Project(account) ==
    IF account = NoUser
    THEN /\ view' = Emit(<<>>, NoUser, view.gen + 1)
         /\ UNCHANGED <<proc, ncalls>>
    ELSE /\ view' = [view EXCEPT !.status = "live", !.gen = @ + 1]
         /\ StartView(account, view.gen + 1)

\* subscribe: activeAccount$ hands over the account that is active now
Subscribe ==
    /\ view.status = "off"
    /\ Project(active)
    /\ UNCHANGED <<store, ciphers, accounts, nfaults, active, history, form>>

\* activeAccount$ changes; a live subscription evaluates the new account
SwitchActive(account) ==
    /\ account # active
    /\ Len(history) < MaxSwitches
    /\ active' = account
    /\ history' = Append(history, account)
    /\ IF view.status = "live"
       THEN Project(account)
       ELSE UNCHANGED <<view, proc, ncalls>>
    /\ UNCHANGED <<store, ciphers, accounts, nfaults, form>>

\* The promise of an evaluation settles. The inner subscription of the
\* current account passes its list on; a rejection reaches catchError,
\* which gives of([]) in place of the whole pipe, so that the subscriber gets
\* [] and the completion. A dropped inner subscription passes nothing on.
\* catchError(() => of([])): the subscriber gets [] and the completion
catchError(account) ==
    [Emit(<<>>, account, view.gen) EXCEPT !.status = "completed"]

ViewDeliver(p) ==
    /\ proc[p].pc = "done"
    /\ proc[p].op = "view"
    /\ proc' = [proc EXCEPT ![p] = Idle]
    /\ view' = IF view.status = "live" /\ proc[p].gen = view.gen
               THEN IF proc[p].rejected
                    THEN catchError(proc[p].userId)
                    ELSE Emit(proc[p].result, proc[p].userId, view.gen)
               ELSE view
    /\ UNCHANGED <<store, ciphers, accounts, ncalls, nfaults, active, history, form>>

NextView ==
    \/ Subscribe
    \/ \E account \in Users \cup {NoUser} : SwitchActive(account)
    \/ \E p \in Procs : ViewDeliver(p)
    \/ /\ \/ \E u \in Users, username \in ViewInputs :
                Quiet /\ ncalls < MaxViewCalls /\ AddCall(1, u, username)
          \/ \E u \in Users, limit \in ViewLimits :
                Quiet /\ ncalls < MaxViewCalls /\ GetCall(1, u, limit)
          \/ \E u \in Users :
                Quiet /\ ncalls < MaxViewCalls /\ ClearCall(1, u)
          \/ \E p \in Procs, ok \in ViewOutcomes : AddUpdate(p, ok)
          \/ \E p \in Procs, ok \in ViewOutcomes : ClearUpdate(p, ok)
          \/ \E p \in Procs, ok \in ViewOutcomes : GetRead(p, ok)
          \/ \E p \in Procs, ok \in ViewOutcomes : SeedQuery(p, ok)
          \/ \E p \in Procs, ok \in ViewOutcomes : SeedUpdate(p, ok)
          \/ \E p \in Procs, ok \in ViewOutcomes : SeedReread(p, ok)
          \/ \E p \in Procs, ok \in ViewOutcomes : AccountsRead(p, ok)
          \/ \E p \in Procs, ok \in ViewOutcomes : FallbackAdd(p, ok)
          \/ \E p \in Procs : proc[p].op # "view" /\ Return(p)
       /\ UNCHANGED <<history, active, view, form>>

SpecView == Init /\ [][NextView]_vars

\* addUsername and clear calls, one at a time, on lists of every length,
\* any of their updates failing. history logs the finished calls.
MaxRetryCalls == 3

InitRetry ==
    /\ \E prior \in RacePriors :
          store = [u \in Users |-> IF u = "u1" THEN prior ELSE Absent]
    /\ ciphers = [u \in Users |-> twoCiphers]
    /\ accounts = [u \in Users |-> Account(30)]
    /\ proc = [p \in Procs |-> Idle]
    /\ ncalls = 0
    /\ nfaults = 0
    /\ history = <<>>
    /\ active = NoUser
    /\ view = Unsubscribed
    /\ form = Closed(NoUser)

\* The promise of the call in slot 1 settles
ReturnRetry ==
    /\ Return(1)
    /\ history' = Append(history, [op |-> proc[1].op, userId |-> proc[1].userId,
                                   failed |-> proc[1].failed])

NextRetry ==
    /\ \/ \E u \in Users, username \in RaceInputs :
             ncalls < MaxRetryCalls /\ AddCall(1, u, username) /\ UNCHANGED history
       \/ \E u \in Users :
             ncalls < MaxRetryCalls /\ ClearCall(1, u) /\ UNCHANGED history
       \/ \E ok \in Outcomes : AddUpdate(1, ok) /\ UNCHANGED history
       \/ \E ok \in Outcomes : ClearUpdate(1, ok) /\ UNCHANGED history
       \/ ReturnRetry
    /\ UNCHANGED <<active, view, form>>

SpecRetry == InitRetry /\ [][NextRetry]_vars

\* The username field of the login form: focus, input, selection and blur
\* events, whose handlers await the service while further events arrive
MaxFormCalls == 3

\* Character codes from UP on are the upper-case letters of the codes below
UP == 100

\* value.toLowerCase()
toLowerCase(s) == [i \in 1..Len(s) |-> IF s[i] >= UP THEN s[i] - UP ELSE s[i]]

\* u.includes(input)
includes(u, input) ==
    \E i \in 0..(Len(u) - Len(input)) : SubSeq(u, i + 1, i + Len(input)) = input

\* What onUsernameInput shows for the lower-cased input: the top 4 when the
\* input is empty, else up to 4 usernames that contain it
suggestionsFor(all, input) ==
    IF input = <<>>
    THEN slice(all, 4)
    ELSE slice(SelectSeq(all, LAMBDA u : includes(toLowerCase(u), input)), 4)

FormTexts == {<<>>, <<5>>, <<UP + 5>>}
FormPriors == {Absent, Present(<<<<5, 6>>, <<UP + 5>>, <<7>>>>)}

InitForm ==
    /\ \E prior \in FormPriors :
          store = [u \in Users |-> IF u = "u1" THEN prior ELSE Absent]
    /\ ciphers = [u \in Users |-> twoCiphers]
    /\ accounts = [u \in Users |-> Account(30)]
    /\ proc = [p \in Procs |-> Idle]
    /\ ncalls = 0
    /\ nfaults = 0
    /\ history = <<>>
    /\ active = NoUser
    /\ view = Unsubscribed
    /\ \E currentUserId \in {"u1", NoUser} : form = Closed(currentUserId)

\* Slot p takes the next call of a handler
FormFree(p) ==
    /\ ncalls < MaxFormCalls
    /\ proc[p].pc = "idle"
    /\ \A q \in Procs : q < p => proc[q].pc # "idle"

\* onUsernameFocus up to its await of getRecent(currentUserId, 4)
OnUsernameFocus(p) ==
    /\ ~form.focused
    /\ IF form.currentUserId = NoUser
       THEN /\ p = 1
            /\ form' = [form EXCEPT !.focused = TRUE, !.blurred = FALSE]
            /\ UNCHANGED <<store, ciphers, accounts, proc, ncalls, nfaults>>
       ELSE /\ FormFree(p)
            /\ GetCall(p, form.currentUserId, 4)
            /\ form' = [form EXCEPT !.focused = TRUE, !.blurred = FALSE,
                                    !.waiting[p] = "focus"]

\* onUsernameInput up to its await of getRecent(currentUserId, 20)
OnUsernameInput(p, text) ==
    /\ form.focused
    /\ IF form.currentUserId = NoUser
       THEN /\ p = 1
            /\ form' = [form EXCEPT !.username = text, !.blurred = FALSE]
            /\ UNCHANGED <<store, ciphers, accounts, proc, ncalls, nfaults>>
       ELSE /\ FormFree(p)
            /\ GetCall(p, form.currentUserId, 20)
            /\ form' = [form EXCEPT !.username = text, !.blurred = FALSE,
                                    !.waiting[p] = "input",
                                    !.input[p] = toLowerCase(text)]

\* onUsernameBlur: the dropdown is hidden at once
OnUsernameBlur ==
    /\ form.focused
    /\ form' = [form EXCEPT !.showAutocompleteSuggestions = FALSE,
                            !.focused = FALSE, !.blurred = TRUE]
    /\ UNCHANGED <<store, ciphers, accounts, proc, ncalls, nfaults>>

\* onUsernameSelected, for a suggestion of the open dropdown, up to its
\* await of addUsername
OnUsernameSelected(p, username) ==
    /\ form.showAutocompleteSuggestions
    /\ form.currentUserId # NoUser
    /\ FormFree(p)
    /\ AddCall(p, form.currentUserId, username)
    /\ form' = [form EXCEPT !.username = username,
                            !.showAutocompleteSuggestions = FALSE,
                            !.waiting[p] = "selected"]

\* onUsernameFocus after its await: the suggestions are set and shown
FocusResume(p) ==
    /\ form.waiting[p] = "focus"
    /\ Return(p)
    /\ form' = [form EXCEPT !.filteredSuggestions = proc[p].result,
                            !.showAutocompleteSuggestions = TRUE,
                            !.waiting[p] = "none"]

\* onUsernameInput after its await: the suggestions are filtered and shown
InputResume(p) ==
    /\ form.waiting[p] = "input"
    /\ Return(p)
    /\ form' = [form EXCEPT !.filteredSuggestions =
                                suggestionsFor(proc[p].result, form.input[p]),
                            !.showAutocompleteSuggestions = TRUE,
                            !.waiting[p] = "none", !.input[p] = <<>>]

\* onUsernameSelected after its await: inputEl.nativeElement.blur(), which
\* runs onUsernameBlur when the field has the focus
SelectedResume(p) ==
    /\ form.waiting[p] = "selected"
    /\ Return(p)
    /\ form' = IF form.focused
               THEN [form EXCEPT !.showAutocompleteSuggestions = FALSE,
                                 !.focused = FALSE, !.blurred = TRUE,
                                 !.waiting[p] = "none"]
               ELSE [form EXCEPT !.waiting[p] = "none"]

NextForm ==
    \/ /\ \/ \E p \in Procs : OnUsernameFocus(p)
          \/ \E p \in Procs, text \in FormTexts : OnUsernameInput(p, text)
          \/ OnUsernameBlur
          \/ \E p \in Procs, i \in 1..Len(form.filteredSuggestions) :
                OnUsernameSelected(p, form.filteredSuggestions[i])
          \/ \E p \in Procs : FocusResume(p)
          \/ \E p \in Procs : InputResume(p)
          \/ \E p \in Procs : SelectedResume(p)
       /\ UNCHANGED <<history, active, view>>
    \/ /\ \/ \E p \in Procs, ok \in Outcomes : AddUpdate(p, ok)
          \/ \E p \in Procs, ok \in Outcomes : GetRead(p, ok)
          \/ \E p \in Procs, ok \in Outcomes : SeedQuery(p, ok)
          \/ \E p \in Procs, ok \in Outcomes : SeedUpdate(p, ok)
          \/ \E p \in Procs, ok \in Outcomes : SeedReread(p, ok)
          \/ \E p \in Procs, ok \in Outcomes : AccountsRead(p, ok)
          \/ \E p \in Procs, ok \in Outcomes : FallbackAdd(p, ok)
       /\ UNCHANGED <<history, active, view, form>>

SpecForm == InitForm /\ [][NextForm]_vars

----------------------------------------------------------------------------
(* What the claims say, stated without the operators of the model *)

\* raw consists of whitespace only (the empty string included)
AllBlank(raw) == \A i \in 1..Len(raw) : raw[i] = SP

\* t is raw without its leading and trailing whitespace
IsTrimOf(t, raw) ==
    /\ t # <<>> => t[1] # SP /\ t[Len(t)] # SP
    /\ \E i \in 0..Len(raw) :
          /\ i + Len(t) <= Len(raw)
          /\ SubSeq(raw, i + 1, i + Len(t)) = t
          /\ \A k \in 1..Len(raw) : (k <= i \/ k > i + Len(t)) => raw[k] = SP

Trimmed(raw) ==
    CHOOSE t \in {SubSeq(raw, i, j) : i \in 1..(Len(raw) + 1), j \in 0..Len(raw)} :
        IsTrimOf(t, raw)

Occurrences(list, x) == Cardinality({i \in 1..Len(list) : list[i] = x})

Others(list, x) == SelectSeq(list, LAMBDA y : y # x)

FirstN(list, n) == [i \in 1..(IF n < Len(list) THEN n ELSE Len(list)) |-> list[i]]

\* Slot p takes a step that is a successful state.update of addUsername
AddCommits(p) ==
    /\ proc[p].op = "add"
    /\ proc[p].pc = "add_update"
    /\ proc'[p].pc = "done"
    /\ ~proc'[p].failed

\* C1: for every user, in every reachable state, the stored list has no
\* duplicate strings and at most MAX_USERNAMES (20) entries.
C1_NoDuplicatesAtMost20 ==
    \A u \in Users :
        /\ \A i, j \in 1..Len(store[u].list) :
              store[u].list[i] = store[u].list[j] => i = j
        /\ Len(store[u].list) >= 0
        /\ Len(store[u].list) <= 20

\* A full list took one more, new username and dropped its oldest entry
C1_Witness ==
    \E p \in Procs :
        /\ proc[p].pc = "done" /\ proc[p].op = "add" /\ proc[p].writes = 1
        /\ Len(proc[p].current.list) = 20
        /\ Occurrences(proc[p].current.list, proc[p].trimmed) = 0
        /\ store[proc[p].userId].list = proc[p].written
        /\ Len(store[proc[p].userId].list) = 20

\* C2: a getRecent that reads a present but empty list (one that clear
\* emptied) returns the empty sequence and writes nothing to the store.
C2_ClearedListIsNotSeeded ==
    \A p \in Procs :
        (/\ proc[p].pc = "done" /\ proc[p].op = "get"
         /\ proc[p].usernames = Present(<<>>)
         /\ ~proc[p].failed)
        => (proc[p].result = <<>> /\ proc[p].writes = 0
            /\ store[proc[p].userId] = Present(<<>>))

\* C3: a successful addUsername of a username that is not blank leaves the
\* username without its surrounding whitespace at index 0 of the user's
\* stored list, and there exactly once.
C3_TrimmedFirstAndOnce ==
    [][\A p \in Procs :
          AddCommits(p) =>
              LET list == store'[proc[p].userId].list
              IN  /\ store'[proc[p].userId].present
                  /\ Len(list) >= 1
                  /\ IsTrimOf(list[1], proc[p].username)
                  /\ Occurrences(list, list[1]) = 1]_vars

\* ' x ' was added when 'x' was stored
C3_Witness ==
    \E p \in Procs :
        /\ proc[p].pc = "done" /\ proc[p].op = "add" /\ proc[p].writes = 1
        /\ proc[p].username # proc[p].written[1]
        /\ Occurrences(proc[p].current.list, proc[p].written[1]) = 1
        /\ store[proc[p].userId].list = proc[p].written

\* C5: addUsername of a username that is in the stored list moves it to
\* index 0; the length and the order of the other entries do not change.
C5_MoveToFront ==
    [][\A p \in Procs :
          (AddCommits(p)
           /\ Occurrences(store[proc[p].userId].list, Trimmed(proc[p].username)) > 0)
          => LET before == store[proc[p].userId].list
                 after == store'[proc[p].userId].list
                 t == Trimmed(proc[p].username)
             IN  /\ Len(after) = Len(before)
                 /\ after[1] = t
                 /\ Others(after, t) = Others(before, t)]_vars

\* A username from the middle of a full list was added again
C5_Witness ==
    \E p \in Procs :
        /\ proc[p].pc = "done" /\ proc[p].op = "add" /\ proc[p].writes = 1
        /\ Len(proc[p].current.list) = 20
        /\ \E i \in 2..19 : proc[p].current.list[i] = proc[p].written[1]
        /\ store[proc[p].userId].list = proc[p].written

\* C6: an addUsername whose username is empty or all whitespace completes
\* without a store update: no step of the call changes any user's stored
\* value (an absent one stays absent) and the call is done at once.
C6_BlankIsNoOp ==
    [][\A p \in Procs :
          (/\ proc'[p] # proc[p]
           /\ proc'[p].op = "add"
           /\ AllBlank(proc'[p].username))
          => (store' = store /\ proc'[p].pc = "done" /\ proc'[p].writes = 0)]_vars

\* A whitespace-only username was added while the list was absent
C6_Witness ==
    \E p \in Procs :
        /\ proc[p].pc = "done" /\ proc[p].op = "add"
        /\ proc[p].username # <<>> /\ AllBlank(proc[p].username)
        /\ store[proc[p].userId] = Absent

\* The identity emails of a user's ciphers that are not blank, trimmed, in
\* the order of the collection
IdentityEmails(u) ==
    LET bearing == SelectSeq(ciphers[u], LAMBDA c : c.identity /\ ~AllBlank(c.email))
    IN  [i \in 1..Len(bearing) |-> Trimmed(bearing[i].email)]

\* addUsername's rule: remove the existing match, prepend, truncate to 20
Rule(list, x) == FirstN(<<x>> \o Others(list, x), 20)

RECURSIVE RuleFoldFrom(_, _, _)
RuleFoldFrom(emails, i, list) ==
    IF i > Len(emails)
    THEN list
    ELSE LET next == Rule(list, emails[i])
         IN  IF Len(next) > 0 THEN RuleFoldFrom(emails, i + 1, next) ELSE next

RuleFold(emails) == RuleFoldFrom(emails, 1, <<>>)

\* Slot p holds a finished getRecent that met no failure and first read an
\* absent list
GotFromAbsent(p) ==
    /\ proc[p].pc = "done" /\ proc[p].op = "get"
    /\ proc[p].usernames = Absent
    /\ ~proc[p].failed

\* C7: getRecent on an absent list, for a user with at least one non-empty
\* identity email, persists the list that addUsername's rule builds from the
\* trimmed non-empty identity emails in collection order (the last email at
\* index 0) and returns its first `limit` entries.
C7_SeedIsFoldOfAddRule ==
    \A p \in Procs :
        (GotFromAbsent(p) /\ IdentityEmails(proc[p].userId) # <<>>)
        => LET emails == IdentityEmails(proc[p].userId)
               folded == RuleFold(emails)
           IN  /\ store[proc[p].userId] = Present(folded)
               /\ folded[1] = emails[Len(emails)]
               /\ proc[p].result = FirstN(folded, proc[p].limit)

\* A seeding from more than 20 emails, one of them repeated, returned the
\* first 3 of the 20 it stored
C7_Witness ==
    \E p \in Procs :
        /\ GotFromAbsent(p)
        /\ Len(IdentityEmails(proc[p].userId)) > 20
        /\ \E i, j \in 1..Len(IdentityEmails(proc[p].userId)) :
              i # j /\ IdentityEmails(proc[p].userId)[i] = IdentityEmails(proc[p].userId)[j]
        /\ Len(store[proc[p].userId].list) = 20
        /\ Len(proc[p].result) = 3

\* C8: getRecent with limit >= 1 on an absent list, for a user with no
\* non-empty identity email whose account email trims to a non-empty e,
\* returns [e] and the stored list becomes [e].
C8_AccountEmailFallback ==
    \A p \in Procs :
        (/\ GotFromAbsent(p)
         /\ proc[p].limit >= 1
         /\ IdentityEmails(proc[p].userId) = <<>>
         /\ accounts[proc[p].userId].identity
         /\ ~AllBlank(accounts[proc[p].userId].email))
        => LET e == Trimmed(accounts[proc[p].userId].email)
           IN  /\ proc[p].result = <<e>>
               /\ store[proc[p].userId] = Present(<<e>>)

\* The fallback ran for a user whose ciphers carry only blank emails
C8_Witness ==
    \E p \in Procs :
        /\ GotFromAbsent(p)
        /\ proc[p].limit >= 1
        /\ Len(ciphers[proc[p].userId]) > 0
        /\ IdentityEmails(proc[p].userId) = <<>>
        /\ proc[p].writes = 1
        /\ Len(proc[p].result) = 1
        /\ store[proc[p].userId].list = proc[p].result

\* C9: a seeding write of a getRecent that read an absent list never
\* replaces a list that became present meanwhile: the entries stored by
\* addUsername stay, and a list that clear emptied stays empty.
C9_SeedingKeepsPresentList ==
    [][\A p \in Procs :
          (/\ proc[p].op = "get"
           /\ proc[p].usernames = Absent
           /\ proc'[p].writes > proc[p].writes
           /\ store[proc[p].userId].present)
          => LET before == store[proc[p].userId].list
                 after == store'[proc[p].userId].list
             IN  /\ \A i \in 1..Len(before) : Occurrences(after, before[i]) > 0
                 /\ before = <<>> => after = <<>>]_vars

Reverse(list) == [i \in 1..Len(list) |-> list[Len(list) + 1 - i]]

\* C4: after successful addUsername calls with pairwise distinct usernames
\* on an empty list, the stored list is the calls in reverse order cut to
\* its first 20 entries: of n > 20 usernames exactly the n - 20 oldest are
\* gone.
C4_ReverseCallOrderCutTo20 ==
    (\A i, j \in 1..Len(history) : history[i] = history[j] => i = j)
    => /\ store["u1"].list = FirstN(Reverse(history), 20)
       /\ \A i \in 1..Len(history) :
             Occurrences(store["u1"].list, history[i]) > 0 <=> i > Len(history) - 20

\* 22 usernames were added: the first two are gone, the third is the last
C4_Witness ==
    /\ Len(history) = 22
    /\ Len(store["u1"].list) = 20
    /\ store["u1"].list[1] = history[22]
    /\ store["u1"].list[20] = history[3]
    /\ Occurrences(store["u1"].list, history[1]) = 0

\* C10: two addUsername calls for one user, in flight together with distinct
\* usernames a and b, lose neither write: once both are done the stored list
\* is b, a (b the later commit), then the prior entries other than a and b in
\* their prior order, cut to 20.
C10_ConcurrentAddsBothKept ==
    (\A p \in Procs : proc[p].pc = "done" /\ proc[p].op = "add")
    => \E p, q \in Procs :
          /\ p # q
          /\ proc[q].current = Present(proc[p].written)
          /\ LET a == Trimmed(proc[p].username)
                 b == Trimmed(proc[q].username)
                 prior == proc[p].current.list
             IN  store["u1"].list = FirstN(<<b, a>> \o Others(Others(prior, a), b), 20)

\* Both calls were started before either committed, on a full list that held
\* one of the two usernames
C10_Witness ==
    /\ \A p \in Procs : proc[p].pc = "done" /\ proc[p].op = "add"
    /\ \E p, q \in Procs :
          /\ p # q
          /\ proc[q].current = Present(proc[p].written)
          /\ Len(proc[p].current.list) = 20
          /\ Occurrences(proc[p].current.list, proc[q].trimmed) = 1
          /\ Occurrences(proc[p].current.list, proc[p].trimmed) = 0
          /\ Len(store["u1"].list) = 20

\* C13: for every limit >= 0 and every stored list, getRecent(userId, limit)
\* returns at most limit entries, and a getRecent in which nothing failed
\* returns the first limit entries of the user's stored list, in the list's
\* order, also when it seeded the list from identity emails or from the
\* account email.
C13_AtMostLimitFirstEntries ==
    \A p \in Procs :
        (proc[p].pc = "done" /\ proc[p].op = "get")
        => /\ Len(proc[p].result) <= proc[p].limit
           /\ ~proc[p].failed =>
                 LET list == store[proc[p].userId].list
                 IN  /\ Len(proc[p].result) =
                          (IF proc[p].limit < Len(list) THEN proc[p].limit ELSE Len(list))
                     /\ \A i \in 1..Len(proc[p].result) : proc[p].result[i] = list[i]

\* A getRecent with limit 3 seeded a list of 20 and returned its first 3
C13_Witness ==
    \E p \in Procs :
        /\ proc[p].pc = "done" /\ proc[p].op = "get" /\ ~proc[p].failed
        /\ proc[p].limit = 3 /\ proc[p].writes = 1
        /\ Len(store[proc[p].userId].list) = 20
        /\ Len(proc[p].result) = 3

\* User u has a seed source that yields something: a non-empty identity
\* email, or an account whose email is not blank
SourceYields(u) ==
    \/ IdentityEmails(u) # <<>>
    \/ accounts[u].identity /\ ~AllBlank(accounts[u].email)

\* C15: one getRecent call writes to the store at most once, whatever the
\* number of identity emails: once when it seeds (from the identity emails
\* or from the account email), the stored list then differing from the one
\* it could read, and never when it does not seed. With no failure it issues as
\* many updates as it commits, and it seeds exactly when it read no entry
\* and a source yields one.
C15_OneWritePerSeeding ==
    \A p \in Procs :
        (proc[p].pc = "done" /\ proc[p].op = "get")
        => /\ proc[p].writes <= 1
           /\ "get_read" \notin proc[p].faults =>
                 (proc[p].writes = 1 <=> store[proc[p].userId] # proc[p].usernames)
           /\ ~proc[p].failed =>
                 /\ proc[p].updates = proc[p].writes
                 /\ proc[p].writes = 1 <=>
                       (Len(proc[p].usernames.list) = 0 /\ SourceYields(proc[p].userId))

\* A seeding from more than 20 identity emails was one write
C15_Witness ==
    \E p \in Procs :
        /\ proc[p].pc = "done" /\ proc[p].op = "get" /\ ~proc[p].failed
        /\ Len(IdentityEmails(proc[p].userId)) > 20
        /\ proc[p].writes = 1 /\ proc[p].updates = 1
        /\ Len(store[proc[p].userId].list) = 20

\* A fallback to the account email was one write
C15_WitnessFallback ==
    \E p \in Procs :
        /\ proc[p].pc = "done" /\ proc[p].op = "get" /\ ~proc[p].failed
        /\ IdentityEmails(proc[p].userId) = <<>>
        /\ proc[p].writes = 1 /\ proc[p].updates = 1
        /\ Len(store[proc[p].userId].list) = 1

\* C16: a step that commits the store update of clear(userId) leaves the
\* user's stored list present and empty, whatever it was before (absent,
\* empty or not empty); a clear whose store update fails finishes all the
\* same, with no error for its caller and the list as it was.
C16_ClearEmptiesTheList ==
    [][\A p \in Procs :
          (proc[p].op = "clear" /\ proc[p].pc = "clear_update" /\ proc'[p].pc # "clear_update")
          => /\ proc'[p].pc = "done" /\ ~proc'[p].rejected
             /\ IF proc'[p].failed
                THEN store' = store
                ELSE /\ store'[proc[p].userId].present
                     /\ Len(store'[proc[p].userId].list) = 0]_vars

\* A clear emptied a list that had entries
C16_Witness ==
    \E p \in Procs :
        /\ proc[p].pc = "done" /\ proc[p].op = "clear" /\ ~proc[p].failed
        /\ proc[p].writes = 1
        /\ Len(proc[p].current.list) > 0
        /\ store[proc[p].userId] = Present(<<>>)

\* A clear made an absent list present and empty
C16_WitnessAbsent ==
    \E p \in Procs :
        /\ proc[p].pc = "done" /\ proc[p].op = "clear" /\ ~proc[p].failed
        /\ proc[p].current = Absent
        /\ store[proc[p].userId] = Present(<<>>)

\* A clear whose update failed finished and left a list with entries
C16_WitnessFailed ==
    \E p \in Procs :
        /\ proc[p].pc = "done" /\ proc[p].op = "clear" /\ proc[p].failed
        /\ Len(store[proc[p].userId].list) > 0

\* C12: getRecent returns the empty sequence whenever a collaborator call
\* made during that getRecent failed (a store read, the store update of the
\* seeding, the identity-source query or the account-directory read).
C12_AnyFailureGivesEmpty ==
    \A p \in Procs :
        (proc[p].pc = "done" /\ proc[p].op = "get" /\ proc[p].faults # {})
        => proc[p].result = <<>>

\* C20: when the user's ciphers carry at least one non-empty identity email,
\* seeding stops at the identity tier: a getRecent that read an absent list
\* never goes on to the account directory, and neither returns nor stores
\* the account email (unless it is one of the identity emails), also when
\* the store update of the identity-seeded list fails.
C20_SeedingStopsAtIdentityTier ==
    \A p \in Procs :
        (/\ proc[p].op = "get"
         /\ proc[p].pc \notin {"get_read", "idle"}
         /\ "get_read" \notin proc[p].faults
         /\ proc[p].usernames = Absent
         /\ IdentityEmails(proc[p].userId) # <<>>)
        => /\ proc[p].pc \notin {"accounts_read", "fallback_add"}
           /\ (/\ accounts[proc[p].userId].identity
               /\ ~AllBlank(accounts[proc[p].userId].email))
              => LET e == Trimmed(accounts[proc[p].userId].email)
                 IN  Occurrences(IdentityEmails(proc[p].userId), e) = 0
                     => /\ Occurrences(proc[p].result, e) = 0
                        /\ Occurrences(store[proc[p].userId].list, e) = 0

Elems(list) == {list[i] : i \in 1..Len(list)}

\* x is something the seed sources of user u yield: the trimmed email of
\* u's account or a trimmed non-empty identity email of u's ciphers
SeedEntry(u, x) ==
    \/ accounts[u].identity /\ IsTrimOf(x, accounts[u].email) /\ x # <<>>
    \/ Occurrences(IdentityEmails(u), x) > 0

\* C19: recency lists are isolated per user. A step changes the stored list
\* of user v only if it is a step of a call (addUsername, getRecent with its
\* seeding, or clear) made for v, and the entries a getRecent for v returns
\* are entries of v's stored list or of v's own seed sources.
C19_ListsIsolatedPerUser ==
    [][/\ \A v \in Users :
             store'[v] # store[v]
             => \E p \in Procs :
                   /\ proc[p].userId = v
                   /\ proc[p].pc \in {"add_update", "clear_update", "seed_update", "fallback_add"}
                   /\ proc'[p].writes = proc[p].writes + 1
       /\ \A p \in Procs :
             (proc[p].op = "get" /\ proc[p].pc # "done" /\ proc'[p].pc = "done")
             => \A i \in 1..Len(proc'[p].result) :
                   \/ Occurrences(store[proc[p].userId].list, proc'[p].result[i]) > 0
                   \/ SeedEntry(proc[p].userId, proc'[p].result[i])]_vars

\* A getRecent for u2 seeded u2's list while u1's list, which has other
\* entries, stayed as it was
C19_Witness ==
    \E p \in Procs :
        /\ proc[p].pc = "done" /\ proc[p].op = "get" /\ proc[p].userId = "u2"
        /\ proc[p].writes = 1 /\ Len(proc[p].result) > 0
        /\ store["u2"].list = proc[p].written
        /\ Len(store["u1"].list) > 0
        /\ Elems(store["u1"].list) \cap Elems(store["u2"].list) = {}

\* C14: a getRecent that reads an absent list while neither the identity
\* source nor the account directory yields a non-empty email writes nothing,
\* leaves the list absent and returns the empty sequence; nothing but the
\* stored state gates seeding, so a getRecent that reads an absent list
\* while a source yields an email seeds the list with one write, however
\* many getRecent calls found nothing before.
C14_NoSourceNoWriteAndRetry ==
    \A p \in Procs :
        (/\ proc[p].pc = "done" /\ proc[p].op = "get"
         /\ "get_read" \notin proc[p].faults
         /\ proc[p].usernames = Absent)
        => /\ ~SourceYields(proc[p].userId)
              => /\ proc[p].writes = 0 /\ proc[p].updates = 0
                 /\ store[proc[p].userId] = Absent
                 /\ proc[p].result = <<>>
           /\ (SourceYields(proc[p].userId) /\ ~proc[p].failed)
              => /\ proc[p].writes = 1
                 /\ store[proc[p].userId].present
                 /\ Len(store[proc[p].userId].list) > 0

\* A getRecent seeded the list of a user for whom an earlier getRecent had
\* found nothing and written nothing, after a source began to yield
C14_Witness ==
    \E p \in Procs :
        /\ proc[p].pc = "done" /\ proc[p].op = "get" /\ ~proc[p].failed
        /\ proc[p].usernames = Absent
        /\ proc[p].writes = 1
        /\ Len(store[proc[p].userId].list) > 0
        /\ \E i, j \in 1..Len(history) :
              /\ i < j
              /\ history[i] = [kind |-> "get", userId |-> proc[p].userId, writes |-> 0,
                                failed |-> FALSE, usernames |-> Absent]
              /\ history[j].kind = "source" /\ history[j].userId = proc[p].userId

C17_WitnessNoSeed ==
    \E p \in Procs :
        /\ proc[p].op = "view" /\ proc[p].pc = "done" /\ ~proc[p].failed
        /\ Len(proc[p].usernames.list) > 0 /\ proc[p].writes = 0

\* The view is evaluating account, or what it emitted last was for account
Following(account) ==
    \/ view.count > 0 /\ view.emittedFor = account
    \/ /\ account # NoUser
       /\ \E p \in Procs :
             /\ proc[p].op = "view" /\ proc[p].pc # "idle"
             /\ proc[p].gen = view.gen /\ proc[p].userId = account

\* C18: once subscribed, the view is evaluated again at every change of the
\* active user: after every step it has emitted for the user who is active
\* now or is evaluating that user, also after it emitted the empty sequence
\* for an error; it emits the empty sequence when there is no active user
\* or the evaluation failed, the stored list when it read one with entries,
\* and nothing for a user who is no longer the active one.
C18_ViewFollowsActiveUser ==
    [][/\ view'.status # "off" => Following(active)'
       /\ view'.count > view.count
          => /\ view'.emittedFor = active'
             /\ active' = NoUser => view'.emitted = <<>>
             /\ \A p \in Procs :
                   (proc[p].op = "view" /\ proc[p].pc = "done" /\ proc'[p].pc = "idle")
                   => /\ proc[p].rejected => view'.emitted = <<>>
                      /\ (~proc[p].failed /\ Len(proc[p].usernames.list) > 0)
                         => view'.emitted = proc[p].usernames.list]_vars

\* C11: no failure of a collaborator (store read or update, identity-source
\* query, account-directory read) comes out of addUsername, getRecent, clear
\* or the reactive view: whichever collaborator calls fail, the promise of a
\* call is never rejected and settles with a plain value, and an evaluation
\* of the view that fails reaches the subscriber as the empty sequence, not
\* as an error.
C11_NoFailureSurfaces ==
    [][\A p \in Procs :
          /\ proc'[p].op \in {"add", "get", "clear"} => ~proc'[p].rejected
          /\ (proc[p].pc \notin {"idle", "done"} /\ proc[p].op # "view")
             => proc'[p].pc # "idle"
          /\ (/\ proc[p].op = "view" /\ proc[p].pc = "done" /\ proc'[p].pc = "idle"
              /\ proc[p].rejected
              /\ view.status = "live" /\ proc[p].gen = view.gen)
             => /\ view'.status \in {"live", "completed"}
                /\ view'.emitted = <<>>
                /\ view'.count = view.count + 1]_vars

\* A getRecent finished with a list although two collaborator calls failed
\* during it
C11_Witness ==
    \E p \in Procs :
        /\ proc[p].pc = "done" /\ proc[p].op = "get" /\ ~proc[p].rejected
        /\ Cardinality(proc[p].faults) = 2

\* The subscriber got the empty sequence for an evaluation that failed
C11_WitnessView ==
    /\ view.status = "completed" /\ view.emitted = <<>> /\ view.count > 0
    /\ view.emittedFor \in Users

\* An addUsername or a clear finished although its update failed
C11_WitnessAddClear ==
    \E p \in Procs :
        /\ proc[p].pc = "done" /\ proc[p].op \in {"add", "clear"}
        /\ proc[p].faults # {} /\ ~proc[p].rejected

\* C21: with no other operation interleaved, what getRecent(userId, limit)
\* returns is the first min(limit, length) entries of the user's stored list
\* as it is when the call returns (nothing when the list is absent), on both
\* seeding paths and also when the seeding write fails. Calls in which a
\* read of the store or of the account directory failed are left aside.
C21_ResultIsPrefixOfStoredList ==
    \A p \in Procs :
        (/\ proc[p].pc = "done" /\ proc[p].op = "get"
         /\ proc[p].faults \cap {"get_read", "seed_reread", "accounts_read"} = {})
        => LET list == store[proc[p].userId].list
               n == IF proc[p].limit < Len(list) THEN proc[p].limit ELSE Len(list)
           IN  /\ Len(proc[p].result) = n
               /\ \A i \in 1..n : proc[p].result[i] = list[i]

\* The call that finished last was an addUsername or a clear for user u
\* whose store update failed
LastFailedFor(u) ==
    /\ history # <<>>
    /\ history[Len(history)].userId = u
    /\ history[Len(history)].op \in {"add", "clear"}
    /\ history[Len(history)].failed

\* C22: an addUsername or clear whose store update fails leaves the user's
\* stored list (and every other list) exactly as it was, and the next
\* successful addUsername for that user stores a list without duplicates,
\* of at most 20 entries, with the new username, trimmed, at index 0.
C22_FailedUpdateIsLost ==
    [][\A p \in Procs :
          /\ (/\ proc[p].op \in {"add", "clear"}
              /\ proc[p].pc \in {"add_update", "clear_update"}
              /\ proc'[p].pc = "done" /\ proc'[p].failed)
             => store' = store
          /\ (AddCommits(p) /\ LastFailedFor(proc[p].userId))
             => LET list == store'[proc[p].userId].list
                IN  /\ store'[proc[p].userId].present
                    /\ Len(list) >= 1 /\ Len(list) <= 20
                    /\ IsTrimOf(list[1], proc[p].username)
                    /\ \A i, j \in 1..Len(list) : list[i] = list[j] => i = j]_vars

\* After an addUsername to a full list failed, the next addUsername of a
\* new username for that user was stored
C22_Witness ==
    \E p \in Procs :
        /\ proc[p].pc = "done" /\ proc[p].op = "add" /\ proc[p].writes = 1
        /\ LastFailedFor(proc[p].userId)
        /\ history[Len(history)].op = "add"
        /\ Len(proc[p].current.list) = 20
        /\ Occurrences(proc[p].current.list, proc[p].trimmed) = 0
        /\ store[proc[p].userId].list = proc[p].written

\* After a clear of a list with entries failed, the next addUsername for
\* that user was stored
C22_WitnessClear ==
    \E p \in Procs :
        /\ proc[p].pc = "done" /\ proc[p].op = "add" /\ proc[p].writes = 1
        /\ LastFailedFor(proc[p].userId)
        /\ history[Len(history)].op = "clear"
        /\ Len(proc[p].current.list) > 0

\* C23: the reactive view tracks the active user's current list: while the
\* active user stays the same, after a successful addUsername or clear for
\* that user the view emits the new stored list, so that once no call is in
\* flight and nothing is left to deliver, its latest emission for the active
\* user is that user's stored list. Runs with a failed collaborator call are
\* left aside.
C23_ViewTracksStoredList ==
    (/\ view.status = "live"
     /\ active \in Users
     /\ view.count > 0 /\ view.emittedFor = active
     /\ Quiet
     /\ nfaults = 0)
    => view.emitted = store[active].list

\* C24: in the login form, once onUsernameBlur has run the suggestion
\* dropdown stays hidden (showAutocompleteSuggestions is false) until a
\* later focus or input event, also when the blur comes while an
\* onUsernameFocus or onUsernameInput handler still awaits getRecent.
\* form.blurred holds from a blur to the next focus or input event.
C24_HiddenAfterBlur ==
    form.blurred => ~form.showAutocompleteSuggestions

====
